---- MODULE Spec2Model ----
(***************************************************************************)
(* carabao-mongo: the query compiler (findData), the stage factories, the  *)
(* identity mapping (convertUuidToId / entityToDTO) and the collection     *)
(* facade returned by getCollection, over a small document store.          *)
(*                                                                         *)
(* A JavaScript object is a function from its own keys to values; a value  *)
(* is a record of one shape, tagged by k:                                  *)
(*   "s" string s | "a" array of strings a | "d" array of objects d        *)
(*   "o" a single object d[1] | "u" undefined                              *)
(***************************************************************************)
EXTENDS Integers, Sequences, FiniteSets, TLC

\* ---------------------------------------------------------------- bounds
MaxDocs == 2
MaxIds == 3
MaxCallers == 2

\* ---------------------------------------------------------------- values
Str(x) == [k |-> "s", s |-> x, a |-> <<>>, d |-> <<>>]
Arr(x) == [k |-> "a", s |-> "", a |-> x, d |-> <<>>]
Docs(x) == [k |-> "d", s |-> "", a |-> <<>>, d |-> x]
Obj(x) == [k |-> "o", s |-> "", a |-> <<>>, d |-> <<x>>]
Undefined == [k |-> "u", s |-> "", a |-> <<>>, d |-> <<>>]
EmptyObject == [x \in {} |-> Undefined]

\* JavaScript truthiness of a value (if (filter.uuid) ...)
Truthy(v) == CASE v.k = "s" -> v.s # ""
               [] v.k = "u" -> FALSE
               [] OTHER -> TRUE

\* data._id.toString(): a string is its own string form
toString(v) == IF v.k = "s" THEN v ELSE Undefined

Has(o, key) == key \in DOMAIN o
Get(o, key) == IF key \in DOMAIN o THEN o[key] ELSE Undefined
\* { ...o, key: v }
Put(o, key, v) == [x \in DOMAIN o \cup {key} |-> IF x = key THEN v ELSE o[x]]
\* delete o[key]  /  const { key, ...rest } = o
Without(o, key) == [x \in DOMAIN o \ {key} |-> o[x]]
\* { ...a, ...b } : the keys of b win
Spread(a, b) == [x \in DOMAIN a \cup DOMAIN b |-> IF x \in DOMAIN b THEN b[x] ELSE a[x]]

Range(s) == {s[i] : i \in 1..Len(s)}
MapSeq(s, F(_)) == [i \in 1..Len(s) |-> F(s[i])]

RECURSIVE Flatten(_)
Flatten(ss) == IF ss = <<>> THEN <<>> ELSE Head(ss) \o Flatten(Tail(ss))

\* ------------------------------------------------- the store (MongoDB)
\* A field of a stored document equals a filter value; an array field also
\* matches a value it contains.
FieldMatches(doc, key, val) ==
  /\ Has(doc, key)
  /\ \/ doc[key] = val
     \/ doc[key].k = "a" /\ val.k = "s" /\ val.s \in Range(doc[key].a)

FlatMatches(doc, filter) ==
  \A key \in DOMAIN filter : FieldMatches(doc, key, filter[key])

\* $or / $and take a list of flat predicates; every other key is a field.
Matches(doc, filter) ==
  \A key \in DOMAIN filter :
    CASE key = "$or" -> \E i \in 1..Len(filter[key].d) : FlatMatches(doc, filter[key].d[i])
      [] key = "$and" -> \A i \in 1..Len(filter[key].d) : FlatMatches(doc, filter[key].d[i])
      [] OTHER -> FieldMatches(doc, key, filter[key])

\* ----------------------------------------------------- pipeline stages
MatchStage(f) == [op |-> "$match", filter |-> f]
ProjectStage(spec) == [op |-> "$project", spec |-> spec]
LookupStage(from, field, pipeline) ==
  [op |-> "$lookup", from |-> from, localField |-> field, foreignField |-> "_id",
   as |-> field, pipeline |-> pipeline]
UnwindStage(field) == [op |-> "$unwind", path |-> field, preserveNullAndEmptyArrays |-> TRUE]
AddFieldsStage(m) == [op |-> "$addFields", fields |-> m]
SortStage(keys) == [op |-> "$sort", keys |-> keys]
SkipStage(n) == [op |-> "$skip", n |-> n]
LimitStage(n) == [op |-> "$limit", n |-> n]
CountStage == [op |-> "$count", as |-> "totalCount"]

\* a projection entry: 1 (include the field) or "$path" (copy that field)
Include == [t |-> "incl", path |-> ""]
Path(p) == [t |-> "path", path |-> p]

\* $project: _id is kept unless the specification names it; an entry whose
\* source field is missing yields no field.
ProjSource(spec, key) == IF spec[key].t = "incl" THEN key ELSE spec[key].path
Project(doc, spec) ==
  LET named == {key \in DOMAIN spec : Has(doc, ProjSource(spec, key))}
      kept == IF Has(doc, "_id") /\ "_id" \notin DOMAIN spec THEN {"_id"} ELSE {}
  IN [key \in named \cup kept |->
        IF key \in named THEN doc[ProjSource(spec, key)] ELSE doc[key]]

\* $addFields { alias: "$original" }
AddFields(doc, m) ==
  LET set == {al \in DOMAIN m : Has(doc, m[al])}
  IN [key \in DOMAIN doc \cup set |-> IF key \in set THEN doc[m[key]] ELSE doc[key]]

\* the stages a $lookup sub-pipeline is built from ($match, $project)
RunInner(stage, docs) ==
  CASE stage.op = "$match" -> SelectSeq(docs, LAMBDA x : Matches(x, stage.filter))
    [] stage.op = "$project" -> MapSeq(docs, LAMBDA x : Project(x, stage.spec))

RECURSIVE RunSub(_, _)
RunSub(pipeline, docs) ==
  IF pipeline = <<>> THEN docs ELSE RunSub(Tail(pipeline), RunInner(Head(pipeline), docs))

\* $lookup with localField/foreignField and a pipeline: the foreign documents
\* whose _id equals the local value (or is an element of the local array), in
\* the foreign collection's order, passed through the sub-pipeline.
LocalMatches(doc, field, foreign) ==
  /\ Has(doc, field)
  /\ Has(foreign, "_id")
  /\ \/ doc[field] = foreign["_id"]
     \/ doc[field].k = "a" /\ foreign["_id"].k = "s" /\ foreign["_id"].s \in Range(doc[field].a)

Lookup(doc, stage, database) ==
  LET found == SelectSeq(database[stage.from], LAMBDA f : LocalMatches(doc, stage.localField, f))
  IN Put(doc, stage.as, Docs(RunSub(stage.pipeline, found)))

\* $unwind with preserveNullAndEmptyArrays: one output document per element;
\* a missing field or a non-array is kept as is, an empty array loses the field.
Unwind(doc, field) ==
  CASE ~Has(doc, field) -> <<doc>>
    [] doc[field].k = "d" ->
         IF doc[field].d = <<>> THEN <<Without(doc, field)>>
         ELSE MapSeq(doc[field].d, LAMBDA e : Put(doc, field, Obj(e)))
    [] doc[field].k = "a" ->
         IF doc[field].a = <<>> THEN <<Without(doc, field)>>
         ELSE MapSeq(doc[field].a, LAMBDA e : Put(doc, field, Str(e)))
    [] OTHER -> <<doc>>

\* $sort: strings are ordered by StringOrder, a missing field sorts first;
\* documents that tie on every key may come out in any order.
StringOrder == <<"", "a", "b", "c", "id1", "id2", "id3", "id4", "u1", "u2", "u3", "x">>
Rank(doc, key) ==
  IF Has(doc, key) /\ doc[key].k = "s"
  THEN CHOOSE i \in 1..Len(StringOrder) : StringOrder[i] = doc[key].s
  ELSE 0
Less(x, y, keys) ==
  \E n \in 1..Len(keys) :
    /\ \A m \in 1..(n - 1) : Rank(x, keys[m][1]) = Rank(y, keys[m][1])
    /\ IF keys[n][2] = 1 THEN Rank(x, keys[n][1]) < Rank(y, keys[n][1])
                         ELSE Rank(x, keys[n][1]) > Rank(y, keys[n][1])
RECURSIVE SortedOrders(_, _, _)
SortedOrders(docs, idxs, keys) ==
  IF idxs = {} THEN {<<>>}
  ELSE UNION { {<<docs[i]>> \o rest : rest \in SortedOrders(docs, idxs \ {i}, keys)} :
               i \in {i \in idxs : \A j \in idxs : ~Less(docs[j], docs[i], keys)} }

\* the possible outputs of one stage
RunStage(stage, docs, database) ==
  CASE stage.op \in {"$match", "$project"} -> {RunInner(stage, docs)}
    [] stage.op = "$lookup" -> {MapSeq(docs, LAMBDA x : Lookup(x, stage, database))}
    [] stage.op = "$unwind" -> {Flatten(MapSeq(docs, LAMBDA x : Unwind(x, stage.path)))}
    [] stage.op = "$addFields" -> {MapSeq(docs, LAMBDA x : AddFields(x, stage.fields))}
    [] stage.op = "$sort" ->
         IF stage.keys = <<>> THEN {docs} ELSE SortedOrders(docs, 1..Len(docs), stage.keys)
    [] stage.op = "$skip" -> {SubSeq(docs, stage.n + 1, Len(docs))}
    [] stage.op = "$limit" -> {SubSeq(docs, 1, IF stage.n < Len(docs) THEN stage.n ELSE Len(docs))}
    [] stage.op = "$count" -> {IF docs = <<>> THEN <<>> ELSE <<[totalCount |-> Len(docs)]>>}

\* collection.aggregate(pipeline).toArray(): the possible result lists
RECURSIVE Aggregate(_, _, _)
Aggregate(pipeline, docs, database) ==
  IF pipeline = <<>> THEN {docs}
  ELSE UNION {Aggregate(Tail(pipeline), out, database) :
              out \in RunStage(Head(pipeline), docs, database)}

\* ------------------------------------------------------------ factories
\* factory/match.factory.ts
createMatch(hasWhere, where) ==
  IF ~hasWhere THEN EmptyObject
  ELSE IF Has(where, "or") THEN [key \in {"$or"} |-> where["or"]]
  ELSE IF Has(where, "and") THEN [key \in {"$and"} |-> where["and"]]
  ELSE where

\* factory/projection.factory.ts
createProjection(hasSelect, select) ==
  IF ~hasSelect THEN [key \in {} |-> Include]
  ELSE [key \in Range(select) |-> Include]

\* factory/lookup.factory.ts: the reduce over joinSelect
RECURSIVE joinProject(_, _)
joinProject(joinSelect, acc) ==
  IF joinSelect = <<>> THEN acc
  ELSE LET key == Head(joinSelect)
       IN joinProject(Tail(joinSelect),
                      IF key = "_id" THEN Put(acc, "uuid", Path("_id"))
                                     ELSE Put(acc, key, Path(key)))

projectStageOf(joinConfig) ==
  IF joinConfig.hasSelect /\ Len(joinConfig.select) > 0
  THEN joinProject(joinConfig.select, [key \in {} |-> Include])
  ELSE [key \in {"uuid"} |-> Path("_id")]

\* the stages createLookup pushes for one entry of join
lookupOf(joinConfig, joinConditions) ==
  LET field == joinConfig.field
      pipeline == (IF Has(joinConditions, field)
                   THEN <<MatchStage(joinConditions[field])>> ELSE <<>>)
                  \o <<ProjectStage(projectStageOf(joinConfig))>>
  IN <<LookupStage(joinConfig.collectionName, field, pipeline), UnwindStage(field)>>

RECURSIVE createLookup(_, _)
createLookup(join, joinConditions) ==
  IF join = <<>> THEN <<>>
  ELSE lookupOf(Head(join), joinConditions) \o createLookup(Tail(join), joinConditions)

\* factory/mapper.ts: { ...data, uuid: data._id.toString(), _id: undefined }
entityToDTO(data) ==
  Put(Put(data, "uuid", toString(Get(data, "_id"))), "_id", Undefined)

\* engine/index.ts convertUuidToId: the filter after the call
convertUuidToId(filter) ==
  IF Truthy(Get(filter, "uuid"))
  THEN Without(Put(filter, "_id", filter["uuid"]), "uuid")
  ELSE filter

\* ------------------------------------------------------- query compiler
\* A Query<T>: has lists the keys the caller set.
Present(query, key) == key \in query.has

\* engine/index.ts findData: where && convertUuidToId(where) rewrites the
\* caller's object in place
whereAfter(query) ==
  IF Present(query, "where") THEN convertUuidToId(query.where) ELSE query.where

matchStageOf(query) == createMatch(Present(query, "where"), whereAfter(query))

sortSpec(sort) ==
  [i \in 1..Len(sort) |-> <<sort[i][1], IF sort[i][2] = "asc" THEN 1 ELSE -1>>]

\* shapingStages with the sort pushed before the joins
shapingStagesSortEarly(query) ==
  (IF DOMAIN matchStageOf(query) # {} THEN <<MatchStage(matchStageOf(query))>> ELSE <<>>)
  \o (IF Present(query, "sort") THEN <<SortStage(sortSpec(query.sort))>> ELSE <<>>)
  \o createLookup(IF Present(query, "join") THEN query.join ELSE <<>>,
                  IF Present(query, "joinConditions") THEN query.joinConditions ELSE EmptyObject)
  \o (IF Present(query, "aliases") THEN <<AddFieldsStage(query.aliases)>> ELSE <<>>)
  \o (IF DOMAIN createProjection(Present(query, "select"), query.select) # {}
      THEN <<ProjectStage(createProjection(Present(query, "select"), query.select))>> ELSE <<>>)

\* the stages pushed before the count is taken
shapingStages(query) ==
  (IF DOMAIN matchStageOf(query) # {} THEN <<MatchStage(matchStageOf(query))>> ELSE <<>>)
  \o createLookup(IF Present(query, "join") THEN query.join ELSE <<>>,
                  IF Present(query, "joinConditions") THEN query.joinConditions ELSE EmptyObject)
  \o (IF Present(query, "aliases") THEN <<AddFieldsStage(query.aliases)>> ELSE <<>>)
  \o (IF DOMAIN createProjection(Present(query, "select"), query.select) # {}
      THEN <<ProjectStage(createProjection(Present(query, "select"), query.select))>> ELSE <<>>)
  \o (IF Present(query, "sort") THEN <<SortStage(sortSpec(query.sort))>> ELSE <<>>)

\* the count taken over the whole shaped pipeline
countPipelineOfShaped(query) == shapingStages(query) \o <<CountStage>>

countPipelineOf(query) ==
  (IF DOMAIN matchStageOf(query) # {} THEN <<MatchStage(matchStageOf(query))>> ELSE <<>>)
  \o <<CountStage>>

\* the limit pushed before the skip
paginationStagesLimitFirst(query, single) ==
  IF single THEN <<>>
  ELSE (IF Present(query, "limit") /\ query.limit > 0 THEN <<LimitStage(query.limit)>> ELSE <<>>)
       \o (IF Present(query, "skip") /\ query.skip > 0 THEN <<SkipStage(query.skip)>> ELSE <<>>)

paginationStages(query, single) ==
  IF single THEN <<>>
  ELSE (IF Present(query, "skip") /\ query.skip > 0 THEN <<SkipStage(query.skip)>> ELSE <<>>)
       \o (IF Present(query, "limit") /\ query.limit > 0 THEN <<LimitStage(query.limit)>> ELSE <<>>)

pipelineOf(query, single) == shapingStages(query) \o paginationStages(query, single)

\* the length of the count pipeline's result list taken for the count
totalCountOfLength(totalCountResult) == Len(totalCountResult)

\* totalCountResult[0]?.totalCount || 0
totalCountOf(totalCountResult) ==
  IF totalCountResult = <<>> THEN 0 ELSE totalCountResult[1].totalCount

\* ------------------------------------------------- unique-field validator
\* An index is named after its key: createIndex({ [field]: 1 }) names it
\* field + "_1"; indexExists(field) looks for an index NAMED field.
IndexName(field, suffix) == [base |-> field, suffix |-> suffix]
indexExists(idx, field) == IndexName(field, "") \in {IndexName(f, "_1") : f \in idx}

\* two stored documents hold the same value of field (a missing field is null)
HasDuplicates(coll, field) ==
  \E i, j \in 1..Len(coll) : i # j /\ Get(coll[i], field) = Get(coll[j], field)

\* createIndex(..., { unique: true }): a no-op on an existing identical index,
\* an error when the stored data violates uniqueness
createIndexFails(coll, idx, field) == field \notin idx /\ HasDuplicates(coll, field)

\* collection.indexExists runs listIndexes, which the server answers with
\* NamespaceNotFound for a collection that does not exist yet; raises tells
\* whether the driver passes that answer on as an error or as an empty list.
indexExistsThrows(exists, raises) == ~exists /\ raises

\* a validator that leaves the indexes as they are
validateUniqueFieldsSkipped(coll, idx, exists, raises, uniqueFields, ops) ==
  [indexes |-> idx, exists |-> exists, ops |-> ops]

\* validator/unique.validator.ts: the unique indexes after the call, whether
\* the collection exists then (createIndex creates it), and the store
\* operations issued; the catch swallows every failure
RECURSIVE validateUniqueFields(_, _, _, _, _, _)
validateUniqueFields(coll, idx, exists, raises, uniqueFields, ops) ==
  IF uniqueFields = <<>> THEN [indexes |-> idx, exists |-> exists, ops |-> ops]
  ELSE LET field == Head(uniqueFields)
           thrown == indexExistsThrows(exists, raises)
           create == ~thrown /\ ~indexExists(idx, field)
           created == create /\ ~createIndexFails(coll, idx, field)
       IN validateUniqueFields(coll, IF created THEN idx \cup {field} ELSE idx,
                               exists \/ created, raises, Tail(uniqueFields),
                               ops \o <<"indexExists">>
                                   \o (IF create THEN <<"createIndex">> ELSE <<>>))

\* ----------------------------------------------------------- store writes
\* insertOne succeeds unless _id or a uniquely indexed field is already taken
CanInsert(coll, idx, doc) ==
  \A i \in 1..Len(coll) :
    /\ Get(coll[i], "_id") # Get(doc, "_id")
    /\ \A f \in idx : Get(coll[i], f) # Get(doc, f)

\* an ordered insertMany: the first failure stops the batch
RECURSIVE insertManyOrdered(_, _, _, _)
insertManyOrdered(coll, idx, docs, done) ==
  IF docs = <<>> \/ ~CanInsert(coll, idx, Head(docs)) THEN [coll |-> coll, inserted |-> done]
  ELSE insertManyOrdered(Append(coll, Head(docs)), idx, Tail(docs), Append(done, Head(docs)))

\* insertMany(docs, { ordered: false }): every document is attempted; the
\* result lists what was inserted and whether any write failed
RECURSIVE insertManyUnordered(_, _, _, _)
insertManyUnordered(coll, idx, docs, inserted) ==
  IF docs = <<>> THEN [coll |-> coll, inserted |-> inserted]
  ELSE IF CanInsert(coll, idx, Head(docs))
       THEN insertManyUnordered(Append(coll, Head(docs)), idx, Tail(docs), Append(inserted, Head(docs)))
       ELSE insertManyUnordered(coll, idx, Tail(docs), inserted)

\* updateMany(filter, { $set: data }): documents are updated one by one; a
\* write that changes _id or breaks a unique index fails and stops the rest
CanReplace(coll, idx, i, doc) ==
  /\ Get(doc, "_id") = Get(coll[i], "_id")
  /\ \A j \in 1..Len(coll) : j # i => \A f \in idx : Get(coll[j], f) # Get(doc, f)

RECURSIVE updateMany(_, _, _, _, _, _)
updateMany(coll, idx, filter, data, i, modified) ==
  IF i > Len(coll) THEN [coll |-> coll, ok |-> TRUE, modifiedCount |-> modified]
  ELSE IF ~Matches(coll[i], filter) THEN updateMany(coll, idx, filter, data, i + 1, modified)
  ELSE LET doc == Spread(coll[i], data)
       IN IF doc = coll[i] THEN updateMany(coll, idx, filter, data, i + 1, modified)
          ELSE IF ~CanReplace(coll, idx, i, doc)
          THEN [coll |-> coll, ok |-> FALSE, modifiedCount |-> modified]
          ELSE updateMany([coll EXCEPT ![i] = doc], idx, filter, data, i + 1, modified + 1)

\* deleteMany(filter)
deleteMany(coll, filter) == SelectSeq(coll, LAMBDA x : ~Matches(x, filter))

\* uuid v4(): the n-th identifier generated
IdNames == <<"id1", "id2", "id3", "id4", "id5">>
v4(n) == IdNames[n]

\* ----------------------------------------------------------------- inputs
Object1(k1, v1) == [key \in {k1} |-> v1]
Object2(k1, v1, k2, v2) == [key \in {k1, k2} |-> IF key = k1 THEN v1 ELSE v2]
Object3(k1, v1, k2, v2, k3, v3) ==
  [key \in {k1, k2, k3} |-> IF key = k1 THEN v1 ELSE IF key = k2 THEN v2 ELSE v3]

\* the joined collection
Users == <<Object2("_id", Str("u1"), "name", Str("a")),
           Object2("_id", Str("u2"), "name", Str("b"))>>

\* the data objects callers insert; the last two carry an identifier of the
\* caller's choosing
InsertInputs ==
  { Object3("name", Str("a"), "createdBy", Str("u1"), "members", Arr(<<"u1", "u2">>)),
    [key \in {"uuid", "name", "createdBy", "members"} |->
       CASE key = "uuid" -> Str("x") [] key = "name" -> Str("b")
         [] key = "createdBy" -> Str("u3") [] OTHER -> Arr(<<>>)],
    Object2("_id", Str("x"), "name", Str("a")) }

InsertBatches ==
  {<<x>> : x \in InsertInputs} \cup {<<x, y>> : x \in InsertInputs, y \in InsertInputs}

UniqueFieldsInputs == {<<>>, <<"name">>}

UpdateInputs == {EmptyObject, Object1("name", Str("c"))}

\* data objects that name an identifier: query.data is typed without uuid,
\* which nothing checks at run time
UpdatePayloads ==
  UpdateInputs \cup {Object2("uuid", Str("x"), "name", Str("c")), Object1("_id", Str("x"))}

\* where predicates: flat, with the external identifier (truthy, empty,
\* unknown), and the logical forms with the identifier nested
Wheres ==
  { EmptyObject,
    Object1("name", Str("a")),
    Object1("uuid", Str("id1")),
    Object1("uuid", Str("")),
    Object1("uuid", Str("x")),
    Object2("uuid", Str("id2"), "name", Str("a")),
    Object1("or", Docs(<<Object1("uuid", Str("id1")), Object1("name", Str("b"))>>)),
    Object1("and", Docs(<<Object1("name", Str("a")), Object1("uuid", Str("id1"))>>)) }

JoinConfig(field, hasSelect, select) ==
  [field |-> field, collectionName |-> "users", hasSelect |-> hasSelect, select |-> select]

EmptyQuery ==
  [has |-> {}, where |-> EmptyObject, select |-> <<>>, join |-> <<>>,
   joinConditions |-> EmptyObject, limit |-> 0, skip |-> 0, sort |-> <<>>,
   aliases |-> [key \in {} |-> ""]]

\* everything of a query but its where
Shapes ==
  { EmptyQuery,
    [EmptyQuery EXCEPT !.has = {"select"}, !.select = <<"name">>],
    [EmptyQuery EXCEPT !.has = {"select", "sort"}, !.select = <<"uuid", "members">>,
                       !.sort = <<<<"name", "asc">>>>],
    [EmptyQuery EXCEPT !.has = {"join"}, !.join = <<JoinConfig("createdBy", FALSE, <<>>)>>],
    [EmptyQuery EXCEPT !.has = {"join", "joinConditions"},
                       !.join = <<JoinConfig("members", TRUE, <<"name">>)>>,
                       !.joinConditions = Object1("members", Object1("name", Str("a")))],
    [EmptyQuery EXCEPT !.has = {"join", "aliases", "select", "sort", "skip", "limit"},
                       !.join = <<JoinConfig("createdBy", TRUE, <<"uuid", "name">>),
                                  JoinConfig("members", TRUE, <<"_id">>)>>,
                       !.aliases = [key \in {"title"} |-> "name"],
                       !.select = <<"title", "createdBy", "members">>,
                       !.sort = <<<<"name", "desc">>>>, !.skip = 1, !.limit = 1],
    [EmptyQuery EXCEPT !.has = {"join", "skip", "limit"},
                       !.join = <<JoinConfig("members", TRUE, <<>>),
                                  JoinConfig("createdBy", FALSE, <<>>)>>,
                       !.skip = 0, !.limit = -1],
    [EmptyQuery EXCEPT !.has = {"aliases", "sort", "limit"},
                       !.aliases = [key \in {"title"} |-> "name"],
                       !.sort = <<<<"title", "asc">>>>, !.limit = 1],
    [EmptyQuery EXCEPT !.has = {"skip"}, !.skip = 1],
    [EmptyQuery EXCEPT !.has = {"sort", "limit"}, !.sort = <<<<"name", "desc">>>>, !.limit = 2] }

Queries ==
  Shapes \cup {[sh EXCEPT !.has = sh.has \cup {"where"}, !.where = w] : sh \in Shapes, w \in Wheres}

\* the queries findSingleData is given: those without sort and aliases
SingleQueries ==
  {query \in Queries : query.has \cap {"sort", "aliases"} = {}}

\* ------------------------------------------------------------------ state
VARIABLES
  db,        \* collection name -> the stored documents, in natural order
  indexes,   \* the fields of "projects" that carry a unique index
  nextId,    \* how many identifiers v4() has generated, plus one
  call,      \* the last facade call: its arguments as the call left them,
             \* what it sent to the store and what it gave back
  inserted,  \* the data and the returned identifier of the latest insertData,
             \* live until another write is made
  exists,    \* whether the store holds the collection "projects" yet
  race,      \* the callers running validateUniqueFields side by side
  tx         \* the executeTransaction call in progress

\* what the facade calls made one after the other leave alone
aside == <<race, tx>>

vars == <<db, indexes, nextId, call, inserted, exists, race, tx>>

\* how a driver reports listIndexes on a missing collection
Raises == BOOLEAN

\* model/collection.ts: the methods the Collection<T> interface declares
CollectionInterface ==
  {"insertData", "insertMultipleData", "updateData", "deleteData",
   "findSingleData", "findMultipleData", "countData"}

\* engine/index.ts: the keys of the object getCollection returns
getCollection ==
  {"deleteData", "findSingleData", "findMultipleData", "insertData",
   "insertMultipleData", "updateData"}

NoCall ==
  [op |-> "none", outcome |-> "ok", message |-> "", hasQuery |-> FALSE, single |-> FALSE,
   given |-> EmptyQuery, query |-> EmptyQuery, pipeline |-> <<>>, countPipeline |-> <<>>,
   sent |-> <<>>, raw |-> <<>>, datas |-> <<>>, totalCount |-> 0,
   hasEntity |-> FALSE, entity |-> EmptyObject, data |-> <<>>, written |-> <<>>,
   ids |-> <<>>, n |-> 0, before |-> <<>>,
   uniqueFields |-> <<>>, indexesBefore |-> {}, ops |-> <<>>,
   session |-> FALSE, inSession |-> <<>>,
   pc |-> "", read |-> <<>>]

NotInserted == [live |-> FALSE, id |-> "", data |-> EmptyObject]

NoRace == [pc |-> <<>>, raises |-> FALSE, failed |-> <<>>]

\* a JavaScript Error: its class, its message (the pieces of the string, in
\* order) and, when it was built with one, the error it was caused by
Error(name, message) == [name |-> name, message |-> message, cause |-> <<>>]
NoError == Error("", <<>>)

NoTx ==
  [pc |-> "idle", program |-> <<>>, threaded |-> FALSE, ops |-> <<>>,
   session |-> "none", txn |-> "none", view |-> <<>>, before |-> <<>>,
   results |-> <<>>, writeFailed |-> FALSE, serverAborted |-> FALSE,
   failure |-> NoError, outcome |-> "none", result |-> <<>>, thrown |-> NoError,
   ended |-> 0]

Init ==
  /\ db = [projects |-> <<>>, users |-> Users]
  /\ indexes = {}
  /\ nextId = 1
  /\ call = NoCall
  /\ inserted = NotInserted
  /\ exists = FALSE
  /\ race = NoRace
  /\ tx = NoTx

\* no facade call is in progress: the caller is free to make the next one
Idle == call.op = "none"

\* the caller has awaited the call's promise and taken its result
await ==
  /\ ~Idle
  /\ call.pc # "counted"
  /\ call' = NoCall
  /\ UNCHANGED <<db, indexes, nextId, inserted, exists, aside>>

\* the $match filters of a pipeline, as the store receives them
FiltersOf(pipeline) ==
  MapSeq(SelectSeq(pipeline, LAMBDA st : st.op = "$match"), LAMBDA st : st.filter)

\* engine/index.ts findData, then findSingleData's datas.shift()
findData(name, hasQuery, query, single) ==
  LET coll == db.projects
      after == [query EXCEPT !.where = whereAfter(query)]
      base == [NoCall EXCEPT !.op = name, !.hasQuery = hasQuery, !.single = single,
                             !.given = query, !.before = coll]
      Answer(c, raw, totalCount) ==
        LET datas == MapSeq(raw, entityToDTO)
        IN [c EXCEPT !.raw = raw, !.datas = datas,
                     !.totalCount = totalCount,
                     !.hasEntity = name = "findSingleData" /\ datas # <<>>,
                     !.entity = IF name = "findSingleData" /\ datas # <<>>
                                THEN Head(datas) ELSE EmptyObject]
  IN /\ Idle
     /\ UNCHANGED <<db, indexes, nextId, inserted, exists, aside>>
     /\ IF ~hasQuery
        THEN call' = Answer(base, IF single THEN SubSeq(coll, 1, IF coll = <<>> THEN 0 ELSE 1) ELSE coll,
                            Len(coll))
        ELSE \E counted \in Aggregate(countPipelineOf(query), coll, db),
                result \in Aggregate(pipelineOf(query, single), coll, db) :
               call' = Answer([base EXCEPT !.query = after,
                                           !.pipeline = pipelineOf(query, single),
                                           !.countPipeline = countPipelineOf(query),
                                           !.sent = FiltersOf(countPipelineOf(query))
                                                    \o FiltersOf(pipelineOf(query, single))],
                              result, totalCountOf(counted))

findMultipleData ==
  \/ findData("findMultipleData", FALSE, EmptyQuery, FALSE)
  \/ \E query \in Queries : findData("findMultipleData", TRUE, query, FALSE)

findSingleData ==
  \/ findData("findSingleData", FALSE, EmptyQuery, TRUE)
  \/ \E query \in SingleQueries : findData("findSingleData", TRUE, query, TRUE)

\* a session handed to a write and never passed on to the store
sessionDropped(threaded) == FALSE

\* engine/index.ts: session ? { session } : undefined - the write is given
\* the session (and runs in its transaction) exactly when the caller passed it
sessionOf(threaded) == threaded

\* engine/index.ts lines 185, 205, 227: validateUniqueFields(collection,
\* uniqueFields) is handed no session, and validator lines 16-17 call
\* indexExists and createIndex without options
validatorSession(ops) == [i \in 1..Len(ops) |-> FALSE]

\* engine/index.ts insertData: the document handed to insertOne
insertedDoc(insertedId, data) == Spread(Object1("_id", Str(insertedId)), Without(data, "uuid"))

\* engine/index.ts insertData, with uniqueFields drawn from declared
insertDataDeclaring(declared) ==
  \E data \in InsertInputs, uniqueFields \in declared, raises \in Raises,
     session \in BOOLEAN :
    LET coll == db.projects
        val == validateUniqueFields(coll, indexes, exists, raises, uniqueFields, <<>>)
        idx == val.indexes
        insertedId == v4(nextId)
        doc == insertedDoc(insertedId, data)
        base == [NoCall EXCEPT !.op = "insertData", !.data = <<data>>, !.before = coll,
                               !.uniqueFields = uniqueFields, !.indexesBefore = indexes,
                               !.ops = val.ops \o <<"insertOne">>,
                               !.session = session,
                               !.inSession = validatorSession(val.ops) \o <<sessionOf(session)>>]
    IN /\ Idle
       /\ nextId <= MaxIds
       /\ Len(coll) < MaxDocs
       /\ indexes' = idx
       /\ nextId' = nextId + 1
       /\ exists' = TRUE
       /\ UNCHANGED aside
       /\ IF CanInsert(coll, idx, doc)
          THEN /\ db' = [db EXCEPT !.projects = Append(coll, doc)]
               /\ call' = [base EXCEPT !.written = <<doc>>, !.ids = <<insertedId>>]
               /\ inserted' = [live |-> TRUE, id |-> insertedId, data |-> data]
          ELSE /\ UNCHANGED <<db, inserted>>
               /\ call' = [base EXCEPT !.outcome = "error", !.message = "duplicate key"]

insertData == insertDataDeclaring(UniqueFieldsInputs)

\* engine/index.ts insertMultipleData: finalDatas
finalDatas(datas, first) ==
  [i \in 1..Len(datas) |-> insertedDoc(v4(first + i - 1), datas[i])]

\* both the insertedIds of a complete insertMany and err.result.insertedIds
\* of a failed one list the _id of every inserted document
insertedIdsOf(docs) == MapSeq(docs, LAMBDA x : toString(x["_id"]).s)

insertMultipleData ==
  \E datas \in InsertBatches, uniqueFields \in UniqueFieldsInputs, raises \in Raises,
     session \in BOOLEAN :
    LET coll == db.projects
        docs == finalDatas(datas, nextId)
        val == validateUniqueFields(coll, indexes, exists, raises, uniqueFields, <<>>)
        idx == val.indexes
        res == insertManyUnordered(coll, idx, docs, <<>>)
    IN /\ Idle
       /\ nextId + Len(datas) - 1 <= MaxIds
       /\ Len(res.coll) <= MaxDocs
       /\ inserted' = NotInserted
       /\ indexes' = idx
       /\ nextId' = nextId + Len(datas)
       /\ exists' = TRUE
       /\ UNCHANGED aside
       /\ db' = [db EXCEPT !.projects = res.coll]
       /\ call' = [NoCall EXCEPT !.op = "insertMultipleData", !.data = datas, !.before = coll,
                                 !.written = res.inserted, !.ids = insertedIdsOf(res.inserted),
                                 !.n = Len(docs),
                                 !.uniqueFields = uniqueFields, !.indexesBefore = indexes,
                                 !.ops = val.ops \o <<"insertMany">>,
                                 !.session = session,
                                 !.inSession = validatorSession(val.ops) \o <<sessionOf(session)>>]

\* a payload check that lets every payload through
emptyDataIgnored(data) == FALSE

\* engine/index.ts updateData: Object.keys(query.data).length === 0
emptyData(data) == DOMAIN data = {}

\* engine/index.ts updateData, with data drawn from payloads
updateDataWith(payloads) ==
  \E where \in Wheres, data \in payloads, uniqueFields \in UniqueFieldsInputs,
     raises \in Raises, session \in BOOLEAN :
    LET coll == db.projects
        base == [NoCall EXCEPT !.op = "updateData", !.given = [EmptyQuery EXCEPT !.where = where],
                               !.query = [EmptyQuery EXCEPT !.where = where],
                               !.data = <<data>>, !.before = coll,
                               !.uniqueFields = uniqueFields, !.indexesBefore = indexes,
                               !.session = session]
        val == validateUniqueFields(coll, indexes, exists, raises, uniqueFields, <<>>)
        idx == val.indexes
        filter == convertUuidToId(where)
        res == updateMany(coll, idx, filter, data, 1, 0)
        ops == val.ops \o <<"updateMany">>
        inSession == validatorSession(val.ops) \o <<sessionOf(session)>>
    IN /\ Idle
       /\ nextId' = nextId
       /\ UNCHANGED aside
       /\ IF emptyData(data)
          THEN /\ UNCHANGED <<db, indexes, inserted, exists>>
               /\ call' = [base EXCEPT !.outcome = "error",
                              !.message = "Failed to update data: Update data cannot be empty"]
          ELSE /\ indexes' = idx
               /\ exists' = val.exists
               /\ inserted' = NotInserted
               /\ db' = [db EXCEPT !.projects = res.coll]
               /\ call' = IF res.ok
                          THEN [base EXCEPT !.sent = <<filter>>, !.n = res.modifiedCount,
                                            !.ops = ops, !.inSession = inSession]
                          ELSE [base EXCEPT !.sent = <<filter>>, !.outcome = "error",
                                            !.message = "Failed to update data: duplicate key",
                                            !.ops = ops, !.inSession = inSession]

updateData == updateDataWith(UpdateInputs)

\* engine/index.ts deleteData
deleteData ==
  \E where \in Wheres, session \in BOOLEAN :
    LET coll == db.projects
        filter == convertUuidToId(where)
    IN /\ Idle
       /\ UNCHANGED <<indexes, nextId, exists, aside>>
       /\ inserted' = NotInserted
       /\ db' = [db EXCEPT !.projects = deleteMany(coll, filter)]
       /\ call' = [NoCall EXCEPT !.op = "deleteData", !.given = [EmptyQuery EXCEPT !.where = where],
                                 !.query = [EmptyQuery EXCEPT !.where = where],
                                 !.before = coll, !.sent = <<filter>>, !.ops = <<"deleteMany">>,
                                 !.session = session, !.inSession = <<sessionOf(session)>>,
                                 !.n = Len(coll) - Len(deleteMany(coll, filter))]

\* a caller invoking countData, which Collection<T> declares, on the object
\* getCollection returned
countData ==
  \E where \in Wheres :
    /\ Idle
    /\ "countData" \in CollectionInterface
    /\ "countData" \notin getCollection
    /\ UNCHANGED <<db, indexes, nextId, inserted, exists, aside>>
    /\ call' = [NoCall EXCEPT !.op = "countData", !.given = [EmptyQuery EXCEPT !.where = where],
                              !.query = [EmptyQuery EXCEPT !.where = where],
                              !.before = db.projects, !.outcome = "error",
                              !.message = "TypeError: countData is not a function"]

Next ==
  \/ findMultipleData
  \/ findSingleData
  \/ insertData
  \/ insertMultipleData
  \/ updateData
  \/ deleteData
  \/ countData
  \/ await

Spec == Init /\ [][Next]_vars

\* ------------------------------------------------- reads of a given store
\* what n inserts leave in the collection: the documents insertData writes,
\* under the identifiers v4() gave, no internal key twice
StoredAfter(n) ==
  {coll \in {[i \in 1..n |-> insertedDoc(v4(i), datas[i])] : datas \in [1..n -> InsertInputs]} :
     \A i, j \in 1..n : i # j => coll[i]["_id"] # coll[j]["_id"]}

InitPage ==
  /\ \E n \in 0..MaxDocs : \E coll \in StoredAfter(n) :
       /\ db = [projects |-> coll, users |-> Users]
       /\ nextId = n + 1
       /\ exists = (n > 0)
  /\ indexes = {}
  /\ call = NoCall
  /\ inserted = NotInserted
  /\ race = NoRace
  /\ tx = NoTx

NextPage ==
  \/ findMultipleData
  \/ await

SpecPage == InitPage /\ [][NextPage]_vars

\* ------------------------------------------------------ executeTransaction
\* The callback passed to executeTransaction is caller code: a program of
\* awaited facade writes, all given the session (threaded) or none.
TxInsertData(data) == [op |-> "insertData", data |-> <<data>>, where |-> EmptyObject]
TxInsertMultipleData(datas) == [op |-> "insertMultipleData", data |-> datas, where |-> EmptyObject]
TxUpdateData(where, data) == [op |-> "updateData", data |-> <<data>>, where |-> where]

TxOps ==
  {TxInsertData(data) : data \in InsertInputs}
  \cup {TxInsertMultipleData(<<data, data>>) : data \in {Object2("_id", Str("x"), "name", Str("a"))}}
  \cup {TxUpdateData(EmptyObject, data) : data \in UpdateInputs}

TxPrograms == {<<a>> : a \in TxOps} \cup {<<a, b>> : a \in TxOps, b \in TxOps}

\* the identifiers a program draws from v4(), the documents it may add
RECURSIVE IdsNeeded(_)
IdsNeeded(program) ==
  IF program = <<>> THEN 0
  ELSE (IF Head(program).op = "updateData" THEN 0 ELSE Len(Head(program).data))
       + IdsNeeded(Tail(program))

\* a finally block that ends the session only after a return
endsSessionOnReturn(outcome) == outcome = "returned"

\* engine/index.ts lines 62-64: finally runs whatever the outcome
endsSession(outcome) == TRUE

\* engine/index.ts line 61: new Error(`Transaction failed: ${error.message}`)
TransactionFailed(error) == Error("Error", <<"Transaction failed: ">> \o error.message)

\* line 50: const session = client.startSession()
executeTransaction ==
  \E program \in TxPrograms, threaded \in BOOLEAN :
    /\ tx.pc = "idle"
    /\ nextId + IdsNeeded(program) - 1 <= MaxIds
    /\ Len(db.projects) + IdsNeeded(program) <= MaxDocs
    /\ tx' = [NoTx EXCEPT !.pc = "withTransaction", !.program = program, !.ops = program,
                          !.threaded = threaded, !.session = "open",
                          !.before = db.projects]
    /\ UNCHANGED <<db, indexes, nextId, call, inserted, exists, race>>

\* line 54: session.withTransaction starts the transaction and calls the callback
withTransaction ==
  /\ tx.pc = "withTransaction"
  /\ tx' = [tx EXCEPT !.pc = "operations", !.txn = "active", !.view = db.projects]
  /\ UNCHANGED <<db, indexes, nextId, call, inserted, exists, race>>

\* One awaited facade write of the callback. A write given the session works
\* on the transaction's view; a write error inside the transaction makes the
\* store abort it, after which every store operation of the session fails.
\* thrown is <<>> or the error the facade call rejects with.
TxStep(coll, ids, returned, thrown, writeError) ==
  LET inTxn == sessionOf(tx.threaded)
      rest == Tail(tx.ops)
  IN /\ nextId' = nextId + ids
     /\ db' = IF inTxn THEN db ELSE [db EXCEPT !.projects = coll]
     /\ exists' = (exists \/ db'.projects # <<>>)
     /\ tx' = [tx EXCEPT
                 !.ops = rest,
                 !.view = IF ~inTxn THEN @ ELSE IF writeError THEN db.projects ELSE coll,
                 !.serverAborted = @ \/ (inTxn /\ writeError),
                 !.writeFailed = @ \/ writeError \/ thrown # <<>>,
                 !.results = IF thrown = <<>> THEN Append(@, returned) ELSE @,
                 !.failure = IF thrown = <<>> THEN @ ELSE thrown[1],
                 !.pc = IF thrown # <<>> THEN "abortTransaction"
                        ELSE IF rest = <<>> THEN "commitTransaction" ELSE "operations"]
     /\ UNCHANGED <<indexes, call, inserted, race>>

NoSuchTransaction == Error("MongoServerError", <<"NoSuchTransaction">>)
DuplicateKey == Error("MongoServerError", <<"E11000 duplicate key">>)
FailedToUpdate(error) == Error("Error", <<"Failed to update data: ">> \o error.message)
Returned(ids, n) == [ids |-> ids, n |-> n]

\* line 55: result = await operations(session)
operations ==
  /\ tx.pc = "operations"
  /\ LET op == Head(tx.ops)
         inTxn == sessionOf(tx.threaded)
         coll == IF inTxn THEN tx.view ELSE db.projects
         gone == inTxn /\ tx.serverAborted
     IN CASE op.op = "insertData" ->
               LET doc == insertedDoc(v4(nextId), op.data[1])
               IN IF gone THEN TxStep(coll, 1, Returned(<<>>, 0), <<NoSuchTransaction>>, TRUE)
                  ELSE IF CanInsert(coll, indexes, doc)
                  THEN TxStep(Append(coll, doc), 1, Returned(<<v4(nextId)>>, 0), <<>>, FALSE)
                  ELSE TxStep(coll, 1, Returned(<<>>, 0), <<DuplicateKey>>, TRUE)
          [] op.op = "insertMultipleData" ->
               LET docs == finalDatas(op.data, nextId)
                   res == insertManyUnordered(coll, indexes, docs, <<>>)
               IN IF gone THEN TxStep(coll, Len(docs), Returned(<<>>, 0), <<>>, TRUE)
                  ELSE TxStep(res.coll, Len(docs), Returned(insertedIdsOf(res.inserted), 0), <<>>,
                              Len(res.inserted) < Len(docs))
          [] op.op = "updateData" ->
               LET res == updateMany(coll, indexes, convertUuidToId(op.where), op.data[1], 1, 0)
               IN IF emptyData(op.data[1])
                  THEN TxStep(coll, 0, Returned(<<>>, 0),
                              <<FailedToUpdate(Error("Error", <<"Update data cannot be empty">>))>>, FALSE)
                  ELSE IF gone
                  THEN TxStep(coll, 0, Returned(<<>>, 0), <<FailedToUpdate(NoSuchTransaction)>>, TRUE)
                  ELSE IF res.ok
                  THEN TxStep(res.coll, 0, Returned(<<>>, res.modifiedCount), <<>>, FALSE)
                  ELSE TxStep(res.coll, 0, Returned(<<>>, 0), <<FailedToUpdate(DuplicateKey)>>, TRUE)

\* withTransaction, the callback resolved: commit. The commit of a transaction
\* that sent writes may fail; that of an aborted one does.
commitTransaction ==
  /\ tx.pc = "commitTransaction"
  /\ UNCHANGED <<indexes, nextId, call, inserted, race>>
  /\ \/ /\ ~tx.serverAborted
        /\ db' = IF sessionOf(tx.threaded) THEN [db EXCEPT !.projects = tx.view] ELSE db
        /\ exists' = (exists \/ db'.projects # <<>>)
        /\ tx' = [tx EXCEPT !.pc = "return", !.txn = "committed"]
     \/ /\ sessionOf(tx.threaded)
        /\ tx' = [tx EXCEPT !.pc = "catch", !.txn = "aborted", !.view = db.projects,
                            !.failure = IF tx.serverAborted THEN NoSuchTransaction
                                        ELSE Error("MongoServerError", <<"commit failed">>)]
        /\ UNCHANGED <<db, exists>>

\* withTransaction, the callback rejected: abort and rethrow
abortTransaction ==
  /\ tx.pc = "abortTransaction"
  /\ tx' = [tx EXCEPT !.pc = "catch", !.txn = "aborted", !.view = db.projects]
  /\ UNCHANGED <<db, indexes, nextId, call, inserted, exists, race>>

\* line 58: return result!
returnResult ==
  /\ tx.pc = "return"
  /\ tx' = [tx EXCEPT !.pc = "finally", !.outcome = "returned", !.result = tx.results]
  /\ UNCHANGED <<db, indexes, nextId, call, inserted, exists, race>>

\* lines 59-61: catch, log, throw the new error
catchError ==
  /\ tx.pc = "catch"
  /\ tx' = [tx EXCEPT !.pc = "finally", !.outcome = "thrown",
                      !.thrown = TransactionFailed(tx.failure)]
  /\ UNCHANGED <<db, indexes, nextId, call, inserted, exists, race>>

\* lines 62-64: finally { session.endSession() }
endSession ==
  /\ tx.pc = "finally"
  /\ tx' = IF endsSession(tx.outcome)
           THEN [tx EXCEPT !.pc = "settled", !.session = "ended", !.ended = @ + 1]
           ELSE [tx EXCEPT !.pc = "settled"]
  /\ UNCHANGED <<db, indexes, nextId, call, inserted, exists, race>>

\* the caller has awaited executeTransaction
settle ==
  /\ tx.pc = "settled"
  /\ tx' = NoTx
  /\ UNCHANGED <<db, indexes, nextId, call, inserted, exists, race>>

\* the steps of a call under way
TxProgress ==
  \/ withTransaction
  \/ operations
  \/ commitTransaction
  \/ abortTransaction
  \/ returnResult
  \/ catchError
  \/ endSession

NextTx ==
  \/ executeTransaction
  \/ withTransaction
  \/ operations
  \/ commitTransaction
  \/ abortTransaction
  \/ returnResult
  \/ catchError
  \/ endSession
  \/ settle

SpecTx == Init /\ [][NextTx]_vars

\* every store round trip is answered and the callback's promises settle
SpecTxLive == SpecTx /\ WF_vars(TxProgress)

\* ------------------------------------------ inserts that all declare name
\* callers that only ever insert with uniqueFields: ["name"], and read
insertDataUnique == insertDataDeclaring({<<"name">>})

NextUnique ==
  \/ insertDataUnique
  \/ findSingleData
  \/ await

SpecUnique == Init /\ [][NextUnique]_vars

\* --------------------------------------------- writes with any data object
\* callers that write only, their update data naming identifiers as well
updateDataAny == updateDataWith(UpdatePayloads)

NextWrite ==
  \/ insertData
  \/ insertMultipleData
  \/ updateDataAny
  \/ deleteData
  \/ await

SpecWrite == Init /\ [][NextWrite]_vars

\* ------------------------------------------------- createLookup on its own
\* the join mappings of up to two fields, in either declaration order, with
\* every form of JoinOptions.select, and the joinConditions naming none, one
\* or both of the fields
JoinFieldNames == {"createdBy", "members"}
JoinSelects == {<<FALSE, <<>>>>, <<TRUE, <<>>>>, <<TRUE, <<"name">>>>, <<TRUE, <<"_id", "name">>>>}
JoinConfigs == {JoinConfig(f, sel[1], sel[2]) : f \in JoinFieldNames, sel \in JoinSelects}
JoinMappings ==
  {<<>>} \cup {<<a>> : a \in JoinConfigs}
         \cup {m \in {<<a, b>> : a \in JoinConfigs, b \in JoinConfigs} : m[1].field # m[2].field}
JoinConditionsInputs ==
  { EmptyObject,
    Object1("members", Object1("name", Str("a"))),
    Object1("createdBy", Object1("name", Str("b"))),
    Object1("createdBy", EmptyObject),
    Object2("createdBy", Object1("name", Str("b")), "members", Object1("name", Str("a"))) }

\* a caller has built a query with join and joinConditions, or without
InitLookup ==
  /\ db = [projects |-> <<>>, users |-> Users]
  /\ indexes = {}
  /\ nextId = 1
  /\ \E join \in JoinMappings, joinConditions \in JoinConditionsInputs,
        has \in SUBSET {"join", "joinConditions"} :
       call = [NoCall EXCEPT !.given =
                 [EmptyQuery EXCEPT !.has = has,
                    !.join = IF "join" \in has THEN join ELSE <<>>,
                    !.joinConditions = IF "joinConditions" \in has THEN joinConditions
                                       ELSE EmptyObject]]
  /\ inserted = NotInserted
  /\ exists = FALSE
  /\ race = NoRace
  /\ tx = NoTx

\* engine/index.ts line 116: const lookupStages = createLookup(join, joinConditions)
lookupStages ==
  /\ Idle
  /\ call' = [call EXCEPT !.op = "createLookup", !.hasQuery = TRUE,
                 !.pipeline = createLookup(call.given.join, call.given.joinConditions)]
  /\ UNCHANGED <<db, indexes, nextId, inserted, exists, aside>>

NextLookup == lookupStages

SpecLookup == InitLookup /\ [][NextLookup]_vars

\* -------------------------------------- a find among concurrent writers
\* findData awaits two store round trips, the count and then the data; other
\* callers' writes reach the store before, between and after them.
\* engine/index.ts line 90 (countDocuments) and lines 138-146 (the count
\* pipeline): the first round trip
findDataCount(name, hasQuery, query, single) ==
  LET coll == db.projects
      base == [NoCall EXCEPT !.op = name, !.hasQuery = hasQuery, !.single = single,
                             !.given = query, !.before = coll, !.pc = "counted"]
  IN /\ Idle
     /\ UNCHANGED <<db, indexes, nextId, inserted, exists, aside>>
     /\ IF ~hasQuery
        THEN call' = [base EXCEPT !.totalCount = Len(coll), !.ops = <<"countDocuments">>]
        ELSE \E counted \in Aggregate(countPipelineOf(query), coll, db) :
               call' = [base EXCEPT !.query = [query EXCEPT !.where = whereAfter(query)],
                                    !.countPipeline = countPipelineOf(query),
                                    !.sent = FiltersOf(countPipelineOf(query)),
                                    !.totalCount = totalCountOf(counted),
                                    !.ops = <<"aggregate(countPipeline)">>]

\* lines 100-105 (find) and lines 153-158 (the main pipeline): the second
\* round trip, and the result returned
findDataResult ==
  LET coll == db.projects
      query == call.given
  IN /\ call.pc = "counted"
     /\ UNCHANGED <<db, indexes, nextId, inserted, exists, aside>>
     /\ IF ~call.hasQuery
        THEN call' = [call EXCEPT !.pc = "returned", !.read = coll, !.raw = coll,
                                  !.datas = MapSeq(coll, entityToDTO),
                                  !.ops = @ \o <<"find">>]
        ELSE \E result \in Aggregate(pipelineOf(query, call.single), coll, db) :
               call' = [call EXCEPT !.pc = "returned", !.read = coll, !.raw = result,
                                    !.datas = MapSeq(result, entityToDTO),
                                    !.pipeline = pipelineOf(query, call.single),
                                    !.sent = @ \o FiltersOf(pipelineOf(query, call.single)),
                                    !.ops = @ \o <<"aggregate(pipeline)">>]

\* the queries made among writers: every where, alone or with one more key
\* (a select, a join, a skip)
FindQueries == {query \in Queries : Cardinality(query.has \ {"where"}) <= 1}

\* line 180: findMultipleData, up to its first await
findMultipleDataCount ==
  \/ findDataCount("findMultipleData", FALSE, EmptyQuery, FALSE)
  \/ \E query \in FindQueries : findDataCount("findMultipleData", TRUE, query, FALSE)

\* another caller's insertData reaches the store (line 188, insertOne)
writerInsertOne ==
  \E data \in InsertInputs :
    LET coll == db.projects
        doc == insertedDoc(v4(nextId), data)
    IN /\ nextId <= MaxIds
       /\ Len(coll) < MaxDocs
       /\ CanInsert(coll, indexes, doc)
       /\ db' = [db EXCEPT !.projects = Append(coll, doc)]
       /\ nextId' = nextId + 1
       /\ exists' = TRUE
       /\ UNCHANGED <<indexes, call, inserted, aside>>

\* another caller's deleteData reaches the store (line 169, deleteMany)
writerDeleteMany ==
  \E where \in Wheres :
    LET coll == db.projects
        filter == convertUuidToId(where)
    IN /\ deleteMany(coll, filter) # coll
       /\ db' = [db EXCEPT !.projects = deleteMany(coll, filter)]
       /\ UNCHANGED <<indexes, nextId, call, inserted, exists, aside>>

NextFind ==
  \/ findMultipleDataCount
  \/ findDataResult
  \/ writerInsertOne
  \/ writerDeleteMany
  \/ await

SpecFind == Init /\ [][NextFind]_vars

\* ------------------------------------- validateUniqueFields side by side
\* Callers run validateUniqueFields(collection, ["name"]) concurrently: each
\* await of the loop body is a step of its own.
Callers == 1..MaxCallers
RaceField == "name"

\* the collections the callers may find
RaceCollections ==
  { <<>>,
    <<Object2("_id", Str("id1"), "name", Str("a"))>>,
    <<Object2("_id", Str("id1"), "name", Str("a")), Object2("_id", Str("id2"), "name", Str("b"))>>,
    <<Object2("_id", Str("id1"), "name", Str("a")), Object2("_id", Str("id2"), "name", Str("a"))>> }

InitRace ==
  /\ \E coll \in RaceCollections : db = [projects |-> coll, users |-> Users]
  /\ exists \in (IF db.projects = <<>> THEN BOOLEAN ELSE {TRUE})
  /\ indexes \in (IF exists /\ ~HasDuplicates(db.projects, RaceField)
                  THEN {{}, {RaceField}} ELSE {{}})
  /\ \E raises \in Raises :
       race = [pc |-> [c \in Callers |-> "indexExists"], raises |-> raises,
               failed |-> [c \in Callers |-> FALSE]]
  /\ nextId = 1
  /\ call = NoCall
  /\ inserted = NotInserted
  /\ tx = NoTx

\* validator line 16: await collection.indexExists(field)
raceIndexExists(c) ==
  /\ race.pc[c] = "indexExists"
  /\ race' = [race EXCEPT !.pc[c] =
                IF indexExistsThrows(exists, race.raises) THEN "catch"
                ELSE IF indexExists(indexes, RaceField) THEN "done"
                ELSE "createIndex"]
  /\ UNCHANGED <<db, indexes, nextId, call, inserted, exists, tx>>

\* validator line 17: await collection.createIndex({ [field]: 1 }, { unique: true });
\* when another caller has created the index meanwhile the store either
\* answers with the existing index or with an "already exists" failure
raceCreateIndex(c) ==
  /\ race.pc[c] = "createIndex"
  /\ UNCHANGED <<db, nextId, call, inserted, tx>>
  /\ IF createIndexFails(db.projects, indexes, RaceField)
     THEN /\ race' = [race EXCEPT !.pc[c] = "catch"]
          /\ UNCHANGED <<indexes, exists>>
     ELSE \/ /\ race' = [race EXCEPT !.pc[c] = "done"]
             /\ indexes' = indexes \cup {RaceField}
             /\ exists' = TRUE
          \/ /\ RaceField \in indexes
             /\ race' = [race EXCEPT !.pc[c] = "catch"]
             /\ UNCHANGED <<indexes, exists>>

\* validator lines 19-21: the catch logs and the loop goes on
raceCatch(c) ==
  /\ race.pc[c] = "catch"
  /\ race' = [race EXCEPT !.pc[c] = "done"]
  /\ UNCHANGED <<db, indexes, nextId, call, inserted, exists, tx>>

NextRace ==
  \/ \E c \in Callers : raceIndexExists(c)
  \/ \E c \in Callers : raceCreateIndex(c)
  \/ \E c \in Callers : raceCatch(c)

SpecRace == InitRace /\ [][NextRace]_vars

\* ================================================================ claims
IsFind == call.op \in {"findSingleData", "findMultipleData"}
IsCompiled == IsFind /\ call.hasQuery
Ops(pipeline) == MapSeq(pipeline, LAMBDA st : st.op)
Occurrences(pipeline, op) == Cardinality({i \in 1..Len(pipeline) : pipeline[i].op = op})

\* the position of a stage kind in match, lookup, alias, projection, sort,
\* skip, limit; the $unwind createLookup pushes after each $lookup belongs
\* to that join
KindRank(op) ==
  CASE op = "$match" -> 1
    [] op \in {"$lookup", "$unwind"} -> 2
    [] op = "$addFields" -> 3
    [] op = "$project" -> 4
    [] op = "$sort" -> 5
    [] op = "$skip" -> 6
    [] op = "$limit" -> 7
    [] OTHER -> 0

LookupFields(pipeline) ==
  MapSeq(SelectSeq(pipeline, LAMBDA st : st.op = "$lookup"), LAMBDA st : st.localField)

\* C1: the main pipeline of findData lists its stages in the order match,
\* lookups (in the join's declaration order), alias, projection, sort, skip,
\* limit: no stage of a later kind precedes one of an earlier kind, each kind
\* but the lookup occurs at most once, and a part of the query that is absent
\* or empty contributes no stage.
C1_StageOrder ==
  IsCompiled =>
    LET p == call.pipeline
        q == call.given
    IN /\ \A i, j \in 1..Len(p) : i < j => KindRank(p[i].op) <= KindRank(p[j].op)
       /\ \A i \in 1..Len(p) : KindRank(p[i].op) > 0
       /\ \A op \in {"$match", "$addFields", "$project", "$sort", "$skip", "$limit"} :
            Occurrences(p, op) <= 1
       /\ LookupFields(p) = (IF Present(q, "join") THEN MapSeq(q.join, LAMBDA jc : jc.field) ELSE <<>>)
       /\ Occurrences(p, "$addFields") = 1 <=> Present(q, "aliases")
       /\ Occurrences(p, "$project") = 1 <=> (Present(q, "select") /\ q.select # <<>>)
       /\ Occurrences(p, "$sort") = 1 <=> Present(q, "sort")
       /\ Occurrences(p, "$match") = 1 <=> (Present(q, "where") /\ DOMAIN q.where # {})
       /\ Occurrences(p, "$skip") = 1 <=> (~call.single /\ Present(q, "skip") /\ q.skip > 0)
       /\ Occurrences(p, "$limit") = 1 <=> (~call.single /\ Present(q, "limit") /\ q.limit > 0)

\* a list query that compiles to all seven kinds, with two joins
C1_Witness ==
  /\ call.op = "findMultipleData"
  /\ {"$match", "$lookup", "$addFields", "$project", "$sort", "$skip", "$limit"}
       \subseteq Range(Ops(call.pipeline))
  /\ Len(LookupFields(call.pipeline)) = 2

\* the number of stored documents a where selects
CountMatching(coll, hasWhere, where) ==
  Cardinality({i \in 1..Len(coll) :
                 Matches(coll[i], createMatch(hasWhere, IF hasWhere THEN convertUuidToId(where) ELSE where))})

\* C2: the totalCount of findMultipleData depends on the store and the where
\* alone - it is the number of stored documents the where selects, whatever
\* select, sort, limit, skip, aliases, join and joinConditions are - and the
\* count pipeline is the match stage (if there is one) followed by the count
\* stage, with no other stage.
C2_CountOnlyWhere ==
  (call.op = "findMultipleData" /\ call.hasQuery) =>
    LET cp == call.countPipeline
    IN /\ call.totalCount =
            CountMatching(call.before, Present(call.given, "where"), call.given.where)
       /\ Len(cp) \in {1, 2}
       /\ cp[Len(cp)].op = "$count"
       /\ Len(cp) = 2 => cp[1].op = "$match" /\ <<cp[1].filter>> = FiltersOf(call.pipeline)
       /\ Len(cp) = 1 => FiltersOf(call.pipeline) = <<>>

\* a joined, paginated list query whose datas differ in number from its count
C2_Witness ==
  /\ call.op = "findMultipleData"
  /\ Present(call.given, "join")
  /\ Present(call.given, "skip")
  /\ call.totalCount = 2
  /\ Len(call.datas) # call.totalCount

\* C3: the facade offers countData, and countData(where) is the number of
\* documents findMultipleData({where}) returns without limit and skip.
C3_CountData ==
  call.op = "countData" =>
    /\ call.outcome = "ok"
    /\ call.n = CountMatching(call.before, TRUE, call.given.where)

\* the stored document a result document was made from
StoredOf(dto) == CHOOSE x \in Range(call.before) : toString(x["_id"]) = Get(dto, "uuid")
Resolving(doc, field) ==
  Cardinality({i \in 1..Len(db.users) : LocalMatches(doc, field, db.users[i])})
JoinFields(query) == {query.join[i].field : i \in 1..Len(query.join)}

\* C4: a join never changes cardinality: a list query with a join (and no
\* skip, limit or joinConditions) returns one root document per matched
\* document, and each joined field it carries is a collection holding as many
\* resolved elements as the stored field has resolvable identifiers.
C4_JoinCardinality ==
  (/\ call.op = "findMultipleData" /\ call.hasQuery
   /\ Present(call.given, "join")
   /\ call.given.has \cap {"skip", "limit", "joinConditions"} = {}) =>
    /\ Len(call.datas) = call.totalCount
    /\ \A i \in 1..Len(call.datas), f \in JoinFields(call.given) :
         Has(call.datas[i], f) =>
           /\ call.datas[i][f].k = "d"
           /\ Len(call.datas[i][f].d) = Resolving(StoredOf(call.datas[i]), f)

\* the resolved documents a result document carries under a joined field
ResolvedIn(dto, field) ==
  IF Has(dto, field) /\ dto[field].k \in {"d", "o"} THEN Range(dto[field].d) ELSE {}

\* C5: whatever JoinOptions.select is, a resolved document carries uuid, equal
\* to the internal key of the target document, plus exactly the selected
\* fields, and never _id.
C5_JoinedIdentity ==
  (IsCompiled /\ Present(call.given, "join")) =>
    \A i \in 1..Len(call.datas), j \in 1..Len(call.given.join) :
      \A e \in ResolvedIn(call.datas[i], call.given.join[j].field) :
        /\ ~Has(e, "_id")
        /\ Has(e, "uuid")
        /\ \E u \in Range(db.users) :
             /\ e["uuid"] = toString(u["_id"])
             /\ \A key \in DOMAIN e \ {"uuid"} : e[key] = Get(u, key)
             /\ DOMAIN e \ {"uuid"} =
                  (Range(call.given.join[j].select) \cap DOMAIN u) \ {"uuid", "_id"}

\* the external identifier occurs in a filter, at the top or in a listed predicate
MentionsUuid(filter) ==
  \/ Has(filter, "uuid")
  \/ \E key \in DOMAIN filter :
       filter[key].k = "d" /\ \E i \in 1..Len(filter[key].d) : Has(filter[key].d[i], "uuid")

\* C6: no filter that reaches the store from findSingleData, findMultipleData,
\* updateData or deleteData mentions uuid: every uuid of the caller's where,
\* at the top or in a predicate under or/and, whatever its value, has become
\* _id with the same value, and the other keys of a flat where are unchanged.
C6_FiltersUseInternalKey ==
  call.op \in {"findSingleData", "findMultipleData", "updateData", "deleteData"} =>
    \A i \in 1..Len(call.sent) :
      LET filter == call.sent[i]
          where == call.given.where
      IN /\ ~MentionsUuid(filter)
         /\ Has(where, "uuid") => Get(filter, "_id") = where["uuid"]
         /\ (~Has(where, "or") /\ ~Has(where, "and")) =>
              \A key \in DOMAIN where \ {"uuid"} : Get(filter, key) = where[key]

\* C7: every root document of datas has uuid equal to the string form of the
\* internal key of the document the pipeline produced, has no _id key at all,
\* and has every other field as the pipeline produced it.
C7_RootIdentity ==
  IsFind =>
    /\ Len(call.datas) = Len(call.raw)
    /\ \A i \in 1..Len(call.datas) :
         /\ Get(call.datas[i], "uuid") = toString(Get(call.raw[i], "_id"))
         /\ ~Has(call.datas[i], "_id")
         /\ DOMAIN call.datas[i] = (DOMAIN call.raw[i] \ {"_id"}) \cup {"uuid"}
         /\ \A key \in DOMAIN call.raw[i] \ {"_id", "uuid"} : call.datas[i][key] = call.raw[i][key]

\* C8: round trip: with id the result of insertData({data: x}) and no write
\* since, findSingleData({where: {uuid: id}}) returns x plus uuid = id, with
\* no internal-key field.
C8_RoundTrip ==
  (/\ call.op = "findSingleData" /\ call.hasQuery
   /\ inserted.live
   /\ call.given.has = {"where"}
   /\ call.given.where = Object1("uuid", Str(inserted.id))) =>
    /\ call.hasEntity
    /\ call.entity = Put(inserted.data, "uuid", Str(inserted.id))
    /\ ~Has(call.entity, "_id")

\* C9: whatever data insertData is given, with a uuid or an _id of the
\* caller's choosing, the document written has the freshly generated
\* identifier as its internal key, and insertData returns that key.
C9_FreshKey ==
  (call.op = "insertData" /\ call.outcome = "ok") =>
    /\ Len(call.written) = 1
    /\ call.ids = <<v4(nextId - 1)>>
    /\ Get(call.written[1], "_id") = Str(call.ids[1])
    /\ db.projects = Append(call.before, call.written[1])

\* one stored document takes the place a new one needs: the same _id, or the
\* same value of a uniquely indexed field
Conflicts(coll, idx, doc) == ~CanInsert(coll, idx, doc)

\* C10: insertMultipleData never raises; it writes every document of the batch
\* that does not collide with a stored one, whichever documents of the batch
\* fail, and returns exactly the internal keys of the documents it wrote (so
\* the empty list only when it wrote none).
C10_PartialInsert ==
  call.op = "insertMultipleData" =>
    LET docs == finalDatas(call.data, nextId - Len(call.data))
    IN /\ call.outcome = "ok"
       /\ db.projects = call.before \o call.written
       /\ Len(call.ids) = Len(call.written)
       /\ \A i \in 1..Len(call.ids) : Str(call.ids[i]) = Get(call.written[i], "_id")
       /\ call.ids = <<>> <=> db.projects = call.before
       /\ \A i \in 1..Len(docs) :
            docs[i] \in Range(call.written) \/ Conflicts(db.projects, indexes, docs[i])

\* a batch of two whose first document failed and whose second was written
C10_Witness ==
  /\ call.op = "insertMultipleData"
  /\ Len(call.data) = 2
  /\ call.written = <<finalDatas(call.data, nextId - 2)[2]>>
  /\ finalDatas(call.data, nextId - 2)[1] \notin Range(db.projects)
  /\ call.ids # <<>>

\* C11: updateData with an empty data object fails with an error, whatever
\* where and uniqueFields are, and it fails before any store operation is
\* issued: no index is checked or created and no document is modified.
C11_EmptyUpdateRejected ==
  (call.op = "updateData" /\ call.data = <<EmptyObject>>) =>
    /\ call.outcome = "error"
    /\ call.ops = <<>>
    /\ call.sent = <<>>
    /\ indexes = call.indexesBefore
    /\ db.projects = call.before

\* an empty update that declares a unique field not indexed yet, with a where
\* that selects a stored document
C11_Witness ==
  /\ call.op = "updateData"
  /\ call.data = <<EmptyObject>>
  /\ call.uniqueFields = <<"name">>
  /\ "name" \notin indexes
  /\ exists
  /\ ~HasDuplicates(db.projects, "name")
  /\ \E i \in 1..Len(db.projects) : Matches(db.projects[i], convertUuidToId(call.given.where))
  /\ call.outcome = "error"

\* C12: findSingleData on a query that no document matches gives the caller
\* an explicit not-found outcome (an error), distinguishable from a returned
\* entity, whereas findMultipleData on such a query succeeds with empty datas
\* and totalCount 0.
C12_NotFoundSignal ==
  /\ (call.op = "findSingleData" /\ call.raw = <<>>) =>
        /\ call.outcome = "error"
        /\ ~call.hasEntity
  /\ (/\ call.op = "findMultipleData" /\ call.hasQuery
      /\ CountMatching(call.before, Present(call.given, "where"), call.given.where) = 0) =>
        /\ call.outcome = "ok"
        /\ call.datas = <<>>
        /\ call.totalCount = 0

\* the elements at positions s+1 .. s+l of a list (all from s+1 on without l)
Page(full, s, hasLimit, l) ==
  SubSeq(full, s + 1, IF hasLimit /\ s + l < Len(full) THEN s + l ELSE Len(full))

\* C13: findMultipleData with skip s and limit l returns at most l documents,
\* the elements at positions s+1 .. s+l of the filtered, shaped and sorted
\* result list; a skip or limit that is zero, negative or absent adds no stage
\* and leaves the result as it is, and totalCount is the same whatever skip
\* and limit are.
C13_Pagination ==
  (call.op = "findMultipleData" /\ call.hasQuery) =>
    LET q == call.given
        s == IF Present(q, "skip") /\ q.skip > 0 THEN q.skip ELSE 0
        hasLimit == Present(q, "limit") /\ q.limit > 0
    IN /\ hasLimit => Len(call.datas) <= q.limit
       /\ \E full \in Aggregate(shapingStages(q), call.before, db) :
            call.raw = Page(full, s, hasLimit, q.limit)
       /\ Occurrences(call.pipeline, "$skip") = (IF s > 0 THEN 1 ELSE 0)
       /\ Occurrences(call.pipeline, "$limit") = (IF hasLimit THEN 1 ELSE 0)
       /\ call.totalCount = CountMatching(call.before, Present(q, "where"), q.where)

\* the second of the sorted documents, returned alone by skip 1 and limit 1
C13_Witness ==
  /\ call.op = "findMultipleData"
  /\ {"skip", "limit", "sort"} \subseteq call.given.has
  /\ call.given.skip = 1
  /\ call.given.limit = 1
  /\ Len(call.before) = 2
  /\ call.totalCount = 2
  /\ Len(call.datas) = 1

\* the last call ran validateUniqueFields for at least one field
Validated ==
  /\ call.op \in {"insertData", "insertMultipleData", "updateData"}
  /\ call.uniqueFields # <<>>
  /\ "indexExists" \in Range(call.ops)

\* C14: validateUniqueFields is idempotent: once it has run (one or more
\* times) for a field list on a collection whose data did not violate
\* uniqueness, every listed field carries its unique constraint, and a run
\* that finds the constraints in place leaves the constraints as they are.
C14_ValidatorIdempotent ==
  (Validated /\ \A f \in Range(call.uniqueFields) : ~HasDuplicates(call.before, f)) =>
    /\ \A f \in Range(call.uniqueFields) : f \in indexes
    /\ Range(call.uniqueFields) \subseteq call.indexesBefore => indexes = call.indexesBefore

\* every concurrent caller has returned from validateUniqueFields
RaceOver == race.pc # <<>> /\ \A c \in Callers : race.pc[c] = "done"

\* C15: when several callers run validateUniqueFields for the same field
\* concurrently on data that does not violate uniqueness, then under every
\* interleaving of their index-exists checks and index-create calls every
\* caller completes without error and at the end the field carries its unique
\* constraint, once.
C15_RaceEndsWithConstraint ==
  (RaceOver /\ ~HasDuplicates(db.projects, RaceField)) =>
    /\ \A c \in Callers : ~race.failed[c]
    /\ RaceField \in indexes

\* the last call asked the store for a unique index that the stored data rules out
CreationRefused ==
  /\ Validated
  /\ "createIndex" \in Range(call.ops)
  /\ \E f \in Range(call.uniqueFields) : createIndexFails(call.before, call.indexesBefore, f)

\* C16: when creating the unique constraint fails for a reason other than
\* "already exists" (stored documents hold duplicate values of the field),
\* the insertData, insertMultipleData or updateData call that ran the
\* validator fails and performs no write.
C16_CreationFailurePropagates ==
  CreationRefused =>
    /\ call.outcome = "error"
    /\ db.projects = call.before
    /\ ~(\E op \in {"insertOne", "insertMany", "updateMany"} : op \in Range(call.ops))

\* the stored documents that hold value v of field f
Holding(coll, f, v) == {i \in 1..Len(coll) : Get(coll[i], f) = v}

\* C17: when every insertData call declares uniqueFields containing name, an
\* insert whose name equals that of a stored document fails and writes
\* nothing, so no two stored documents share a name, and findSingleData on a
\* name finds the one document that holds it - the first inserted with it.
C17_UniqueValues ==
  /\ ~HasDuplicates(db.projects, "name")
  /\ (call.op = "insertData" /\ Holding(call.before, "name", Get(call.data[1], "name")) # {}) =>
        /\ call.outcome = "error"
        /\ call.written = <<>>
        /\ db.projects = call.before
  /\ (/\ call.op = "findSingleData" /\ call.hasQuery
      /\ call.given.has = {"where"}
      /\ DOMAIN call.given.where = {"name"}) =>
        LET held == Holding(call.before, "name", call.given.where["name"])
        IN /\ Cardinality(held) <= 1
           /\ call.totalCount = Cardinality(held)
           /\ call.hasEntity <=> held # {}
           /\ \A i \in held : call.entity = entityToDTO(call.before[i])

\* a second insert of a stored name, under a fresh key, has failed
C17_Witness ==
  /\ call.op = "insertData"
  /\ call.outcome = "error"
  /\ \E i \in Holding(call.before, "name", Get(call.data[1], "name")) :
       Get(call.before[i], "_id") # Get(insertedDoc(v4(nextId - 1), call.data[1]), "_id")
  /\ db.projects = call.before

\* the session is in the hands of withTransaction or of the callback
SessionInUse ==
  tx.pc \in {"operations", "commitTransaction", "abortTransaction"}

\* C18: every executeTransaction call that opened a session eventually ends
\* it, exactly once, whether the callback and the commit succeed, the callback
\* fails or the commit fails; the session is not ended while the callback or
\* the transaction is still under way, and nothing uses it once it is ended.
C18_SessionEndedOnce ==
  /\ [](tx.ended <= 1)
  /\ [](SessionInUse => tx.session = "open")
  /\ [](tx.session = "ended" => tx.pc = "settled" /\ tx.ended = 1)
  /\ (tx.session = "open") ~> (tx.session = "ended")

\* a call whose commit failed has ended its session
C18_Witness ==
  /\ tx.pc = "settled"
  /\ tx.session = "ended"
  /\ tx.ops = <<>>
  /\ Len(tx.results) = Len(tx.program)
  /\ tx.txn = "aborted"
  /\ tx.failure = Error("MongoServerError", <<"commit failed">>)

\* idle, session-open, in-transaction, committed or aborted, session-closed
Phase(t) ==
  CASE t.session = "none" -> 0
    [] t.session = "open" /\ t.txn = "none" -> 1
    [] t.session = "open" /\ t.txn = "active" -> 2
    [] t.session = "open" /\ t.txn \in {"committed", "aborted"} -> 3
    [] OTHER -> 4

\* C19: executeTransaction passes through idle, session-open, in-transaction,
\* committed or aborted, session-closed, in this order; it commits and returns
\* the callback's result exactly when the callback completed without failure
\* and the commit succeeded; otherwise it aborts and throws one
\* transaction-failure error that carries the failure's message and holds the
\* original error as its cause.
C19_TransactionOutcome ==
  /\ [][\/ Phase(tx') = Phase(tx)
        \/ Phase(tx') = Phase(tx) + 1
        \/ Phase(tx) = 4 /\ Phase(tx') = 0]_tx
  /\ [](tx.pc = "settled" =>
         /\ Phase(tx) = 4
         /\ tx.outcome \in {"returned", "thrown"}
         /\ tx.outcome = "returned" <=>
              (Len(tx.results) = Len(tx.program) /\ tx.txn = "committed")
         /\ tx.outcome = "returned" => tx.result = tx.results
         /\ tx.outcome = "thrown" =>
              /\ tx.txn = "aborted"
              /\ tx.thrown.message = <<"Transaction failed: ">> \o tx.failure.message
              /\ tx.thrown.cause = <<tx.failure>>)

\* C20: when the callback's facade writes are given the session and one of
\* them fails after others were made, none of the callback's writes is
\* visible once executeTransaction has settled: the stored documents are
\* those from before the call.
C20_FullAbort ==
  (tx.pc = "settled" /\ tx.threaded /\ tx.writeFailed) => db.projects = tx.before

\* an insert made in the transaction, then a failing update: the call threw
\* and the insert is gone
C20_Witness ==
  /\ tx.pc = "settled"
  /\ tx.threaded
  /\ Len(tx.program) = 2
  /\ tx.program[1].op = "insertData"
  /\ tx.program[2].op = "updateData"
  /\ Len(tx.results) = 1
  /\ tx.results[1].ids # <<>>
  /\ tx.outcome = "thrown"
  /\ db.projects = tx.before

\* the last call was a write that the caller gave a session
WithSession ==
  /\ call.op \in {"insertData", "insertMultipleData", "updateData", "deleteData"}
  /\ call.session

\* C21: when insertData, insertMultipleData, updateData or deleteData is
\* called with a session, every store operation issued during the call - the
\* index-exists check and the index creation of the validator included - is
\* given that session.
C21_SessionThreaded ==
  WithSession =>
    /\ Len(call.inSession) = Len(call.ops)
    /\ \A i \in 1..Len(call.ops) : call.inSession[i]

\* C22: after any sequence of insertData, insertMultipleData, updateData and
\* deleteData calls, with data objects that may hold a uuid key, no stored
\* document has a field named uuid, and an update leaves every stored
\* document under the internal key it had.
C22_IdentifierNeverStored ==
  /\ \A i \in 1..Len(db.projects) : ~Has(db.projects[i], "uuid")
  /\ call.op = "updateData" =>
        /\ Len(db.projects) = Len(call.before)
        /\ \A i \in 1..Len(db.projects) :
             Get(db.projects[i], "_id") = Get(call.before[i], "_id")

\* the $lookup stages of a pipeline
LookupsOf(pipeline) == SelectSeq(pipeline, LAMBDA st : st.op = "$lookup")

\* C23: for a join mapping with k fields createLookup emits exactly k stages,
\* one $lookup per joined field in the mapping's declaration order; the
\* pipeline of a field's $lookup is that field's joinConditions filter (when
\* one is given) followed by the projection, and holds no filter given for
\* another field.
C23_OneStagePerJoin ==
  call.op = "createLookup" =>
    LET join == call.given.join
        joinConditions == call.given.joinConditions
        stages == call.pipeline
        lookups == LookupsOf(stages)
    IN /\ Len(stages) = Len(join)
       /\ Len(lookups) = Len(join)
       /\ \A i \in 1..Len(lookups) :
            /\ lookups[i].localField = join[i].field
            /\ lookups[i].from = join[i].collectionName
            /\ Ops(lookups[i].pipeline) =
                 (IF Has(joinConditions, join[i].field) THEN <<"$match">> ELSE <<>>)
                 \o <<"$project">>
            /\ Has(joinConditions, join[i].field) =>
                 lookups[i].pipeline[1].filter = joinConditions[join[i].field]

\* the last call was handed a where by its caller
GivenWhere ==
  \/ IsCompiled /\ Present(call.given, "where")
  \/ call.op \in {"updateData", "deleteData"}

\* C24: no facade operation modifies the where object its caller passed: when
\* findSingleData, findMultipleData, updateData or deleteData returns, the
\* caller's where has the keys and values it had before the call (a uuid key
\* is still uuid), and a find made again with the descriptor as the call left
\* it sends the filters the first call sent.
C24_WhereUntouched ==
  GivenWhere =>
    /\ call.query.where = call.given.where
    /\ IsCompiled =>
         FiltersOf(countPipelineOf(call.query)) \o FiltersOf(pipelineOf(call.query, call.single))
           = call.sent

\* a findMultipleData has returned from its two round trips, its query (if
\* any) without join, skip and limit
ReturnedPlain ==
  /\ call.op = "findMultipleData"
  /\ call.pc = "returned"
  /\ call.given.has \cap {"join", "skip", "limit"} = {}

\* C25 as stated: findMultipleData makes two store round trips, the count
\* first, and with other callers inserting or deleting matching documents
\* meanwhile, every result of a query without join, skip or limit has
\* totalCount equal to the number of elements of datas.
C25_CountEqualsDatas ==
  ReturnedPlain =>
    /\ Len(call.ops) = 2
    /\ call.ops[1] \in {"countDocuments", "aggregate(countPipeline)"}
    /\ call.totalCount = Len(call.datas)

\* C25 as amended: findMultipleData makes two store round trips, the count
\* first; totalCount is the number of documents the where selects in the
\* store as the count round trip finds it, datas (for a query without join,
\* skip or limit) holds as many elements as the where selects in the store
\* as the data round trip finds it, and the two are equal whenever the store
\* holds the same documents at both round trips.
C25_CountThenData ==
  ReturnedPlain =>
    LET q == call.given
    IN /\ Len(call.ops) = 2
       /\ call.ops[1] \in {"countDocuments", "aggregate(countPipeline)"}
       /\ call.ops[2] \in {"find", "aggregate(pipeline)"}
       /\ call.totalCount = CountMatching(call.before, Present(q, "where"), q.where)
       /\ Len(call.datas) = CountMatching(call.read, Present(q, "where"), q.where)
       /\ call.read = call.before => call.totalCount = Len(call.datas)

\* a matching document was inserted between the count and the data round
\* trip: the count is one, datas holds two
C25_Witness ==
  /\ ReturnedPlain
  /\ call.hasQuery
  /\ Present(call.given, "where")
  /\ Len(call.before) = 1
  /\ Len(call.read) = 2
  /\ call.totalCount = 1
  /\ Len(call.datas) = 2

====
